---- MODULE Spec2Model ----
(***************************************************************************)
(* Model of src/go/main.go: a WebSocket-to-TCP gateway.  One WebSocket     *)
(* connection is served by handleWebSocket; its first binary message is   *)
(* handed to handleProxyRequest, which parses the handshake header,       *)
(* checks the identifier, acknowledges, dials the target and then runs    *)
(* the two relay goroutines proxyWebSocketToTCP and proxyTCPToWebSocket.  *)
(*                                                                         *)
(* Byte sequences are TLA+ sequences of 0..255.  Go indexes from 0, TLA+  *)
(* from 1: At and Slice below keep the Go indices of the source.          *)
(***************************************************************************)
EXTENDS Integers, Sequences, FiniteSets, TLC

\* ---------------------------------------------------------------- bounds
\* Non-binary messages the handler loop may skip before the handshake.
MaxSkips == 1
\* Messages the WebSocket->TCP goroutine may read during relay.
MaxWsMsgs == 2
\* Bytes the TCP peer may send during the session.
MaxTcpBytes == 2

\* ------------------------------------------------------ program constants
\* errChan := make(chan error, 2)
ErrChanCap == 2
\* buffer := make([]byte, 4096)
BufSize == 4096
\* if len(message) < 18
MinFrameLen == 18
\* websocket.TextMessage and websocket.BinaryMessage (gorilla/websocket)
TextMessage == 1
BinaryMessage == 2

\* ----------------------------------------------------------- Go indexing
At(s, k) == s[k + 1]
Slice(s, lo, hi) == SubSeq(s, lo + 1, hi)
Min(a, b) == IF a < b THEN a ELSE b

\* ------------------------------------------------------ init(): the uuid
\* Strings are sequences of one-character strings.
DefaultUuid == <<"1", "2", "3", "4", "5", "6">>

RECURSIVE StripHyphens(_)
StripHyphens(s) ==
    IF s = <<>> THEN <<>>
    ELSE IF Head(s) = "-" THEN StripHyphens(Tail(s))
    ELSE <<Head(s)>> \o StripHyphens(Tail(s))

\* init(): uuid = os.Getenv("UUID"); "" falls back to "123456"; hyphens go.
InitUuid(env) == StripHyphens(IF env = <<>> THEN DefaultUuid ELSE env)

\* Value of one hexadecimal digit, -1 for any other character.
HexVal(c) ==
    CASE c = "0" -> 0 [] c = "1" -> 1 [] c = "2" -> 2 [] c = "3" -> 3
      [] c = "4" -> 4 [] c = "5" -> 5 [] c = "6" -> 6 [] c = "7" -> 7
      [] c = "8" -> 8 [] c = "9" -> 9
      [] c \in {"a", "A"} -> 10 [] c \in {"b", "B"} -> 11
      [] c \in {"c", "C"} -> 12 [] c \in {"d", "D"} -> 13
      [] c \in {"e", "E"} -> 14 [] c \in {"f", "F"} -> 15
      [] OTHER -> -1

\* hexToByte: fmt.Sscanf(hex, "%02x", &b) on a two-character string.  The
\* scan takes at most two hexadecimal digits; with no leading digit it
\* fails and b keeps its zero value.
hexToByte(hex) ==
    IF HexVal(hex[1]) < 0 THEN 0
    ELSE IF HexVal(hex[2]) < 0 THEN HexVal(hex[1])
    ELSE 16 * HexVal(hex[1]) + HexVal(hex[2])

\* validateUUID: the range loop over id, from index k on.  uuid[k*2:k*2+2]
\* panics (slice bounds out of range) when the string is too short.
RECURSIVE validateUUIDFrom(_, _, _)
validateUUIDFrom(id, u, k) ==
    IF k >= Len(id) THEN "match"
    ELSE IF k * 2 + 2 > Len(u) THEN "panic"
    ELSE IF At(id, k) # hexToByte(Slice(u, k * 2, k * 2 + 2)) THEN "nomatch"
    ELSE validateUUIDFrom(id, u, k + 1)

\* A loop that stops one byte early.
validateUUIDShort(id, u) == validateUUIDFrom(SubSeq(id, 1, Len(id) - 1), u, 0)

validateUUID(id, u) == validateUUIDFrom(id, u, 0)

\* ------------------------------------------- handleProxyRequest: parsing
\* The port read low byte first.
ParsePortLittleEndian(m) ==
    LET i0 == At(m, 17) + 19 IN
    IF Len(m) < i0 + 3
    THEN [err |-> "message too short", targetPort |-> 0, atyp |-> 0, i |-> i0]
    ELSE [err |-> "nil",
          targetPort |-> At(m, i0) + 256 * At(m, i0 + 1),
          atyp |-> At(m, i0 + 2),
          i |-> i0 + 3]

\* The length check one byte short: room for the port only.
ParsePortLax(m) ==
    LET i0 == At(m, 17) + 19 IN
    IF Len(m) < i0 + 2
    THEN [err |-> "message too short", targetPort |-> 0, atyp |-> 0, i |-> i0]
    ELSE [err |-> "nil",
          targetPort |-> 256 * At(m, i0) + At(m, i0 + 1),
          atyp |-> IF Len(m) >= i0 + 3 THEN At(m, i0 + 2) ELSE 0,
          i |-> i0 + 3]

\* Lines 94-102: cursor after the addon region, port, address type.
\* Result: [err, targetPort, atyp, i].
ParsePort(m) ==
    LET i0 == At(m, 17) + 19 IN
    IF Len(m) < i0 + 3
    THEN [err |-> "message too short", targetPort |-> 0, atyp |-> 0, i |-> i0]
    ELSE [err |-> "nil",
          targetPort |-> 256 * At(m, i0) + At(m, i0 + 1),
          atyp |-> At(m, i0 + 2),
          i |-> i0 + 3]

\* Lines 104-131: the switch on atyp.  Result: [err, host, i].  The host is
\* kept as the address kind and the address bytes (net.IP.String() and
\* string() render them as text for net.Dial).
NoHost == [kind |-> "none", bytes |-> <<>>]

\* The switch with no default case: an unlisted tag is read as IPv6.
DecodeAddressNoDefault(m, atyp, i) ==
    CASE atyp = 1 ->
           IF Len(m) < i + 4
           THEN [err |-> "message too short for IPv4", host |-> NoHost, i |-> i]
           ELSE [err |-> "nil",
                 host |-> [kind |-> "ipv4", bytes |-> Slice(m, i, i + 4)],
                 i |-> i + 4]
      [] atyp = 2 ->
           IF Len(m) < i + 1
           THEN [err |-> "message too short for domain length",
                 host |-> NoHost, i |-> i]
           ELSE LET domainLen == At(m, i) IN
                IF Len(m) < i + 1 + domainLen
                THEN [err |-> "message too short for domain name",
                      host |-> NoHost, i |-> i + 1]
                ELSE [err |-> "nil",
                      host |-> [kind |-> "domain",
                                bytes |-> Slice(m, i + 1, i + 1 + domainLen)],
                      i |-> i + 1 + domainLen]
      [] OTHER ->
           IF Len(m) < i + 16
           THEN [err |-> "message too short for IPv6", host |-> NoHost, i |-> i]
           ELSE [err |-> "nil",
                 host |-> [kind |-> "ipv6", bytes |-> Slice(m, i, i + 16)],
                 i |-> i + 16]

\* The IPv6 case with the length check of the IPv4 case.
DecodeAddressShortCheck(m, atyp, i) ==
    CASE atyp = 1 ->
           IF Len(m) < i + 4
           THEN [err |-> "message too short for IPv4", host |-> NoHost, i |-> i]
           ELSE [err |-> "nil",
                 host |-> [kind |-> "ipv4", bytes |-> Slice(m, i, i + 4)],
                 i |-> i + 4]
      [] atyp = 2 ->
           IF Len(m) < i + 1
           THEN [err |-> "message too short for domain length",
                 host |-> NoHost, i |-> i]
           ELSE LET domainLen == At(m, i) IN
                IF Len(m) < i + 1 + domainLen
                THEN [err |-> "message too short for domain name",
                      host |-> NoHost, i |-> i + 1]
                ELSE [err |-> "nil",
                      host |-> [kind |-> "domain",
                                bytes |-> Slice(m, i + 1, i + 1 + domainLen)],
                      i |-> i + 1 + domainLen]
      [] atyp = 3 ->
           IF Len(m) < i + 4
           THEN [err |-> "message too short for IPv6", host |-> NoHost, i |-> i]
           ELSE [err |-> "nil",
                 host |-> [kind |-> "ipv6",
                           bytes |-> Slice(m, i, Min(i + 16, Len(m)))],
                 i |-> i + 16]
      [] OTHER ->
           [err |-> "unknown address type", host |-> NoHost, i |-> i]

\* The domain case advancing by L, not 1 + L: the length byte is taken
\* for the first byte of the name.
DecodeAddressDomainSkew(m, atyp, i) ==
    CASE atyp = 1 ->
           IF Len(m) < i + 4
           THEN [err |-> "message too short for IPv4", host |-> NoHost, i |-> i]
           ELSE [err |-> "nil",
                 host |-> [kind |-> "ipv4", bytes |-> Slice(m, i, i + 4)],
                 i |-> i + 4]
      [] atyp = 2 ->
           IF Len(m) < i + 1
           THEN [err |-> "message too short for domain length",
                 host |-> NoHost, i |-> i]
           ELSE LET domainLen == At(m, i) IN
                IF Len(m) < i + domainLen
                THEN [err |-> "message too short for domain name",
                      host |-> NoHost, i |-> i + 1]
                ELSE [err |-> "nil",
                      host |-> [kind |-> "domain",
                                bytes |-> Slice(m, i, i + domainLen)],
                      i |-> i + domainLen]
      [] atyp = 3 ->
           IF Len(m) < i + 16
           THEN [err |-> "message too short for IPv6", host |-> NoHost, i |-> i]
           ELSE [err |-> "nil",
                 host |-> [kind |-> "ipv6", bytes |-> Slice(m, i, i + 16)],
                 i |-> i + 16]
      [] OTHER ->
           [err |-> "unknown address type", host |-> NoHost, i |-> i]

DecodeAddress(m, atyp, i) ==
    CASE atyp = 1 ->
           IF Len(m) < i + 4
           THEN [err |-> "message too short for IPv4", host |-> NoHost, i |-> i]
           ELSE [err |-> "nil",
                 host |-> [kind |-> "ipv4", bytes |-> Slice(m, i, i + 4)],
                 i |-> i + 4]
      [] atyp = 2 ->
           IF Len(m) < i + 1
           THEN [err |-> "message too short for domain length",
                 host |-> NoHost, i |-> i]
           ELSE LET domainLen == At(m, i) IN
                IF Len(m) < i + 1 + domainLen
                THEN [err |-> "message too short for domain name",
                      host |-> NoHost, i |-> i + 1]
                ELSE [err |-> "nil",
                      host |-> [kind |-> "domain",
                                bytes |-> Slice(m, i + 1, i + 1 + domainLen)],
                      i |-> i + 1 + domainLen]
      [] atyp = 3 ->
           IF Len(m) < i + 16
           THEN [err |-> "message too short for IPv6", host |-> NoHost, i |-> i]
           ELSE [err |-> "nil",
                 host |-> [kind |-> "ipv6", bytes |-> Slice(m, i, i + 16)],
                 i |-> i + 16]
      [] OTHER ->
           [err |-> "unknown address type", host |-> NoHost, i |-> i]

\* The reads handleProxyRequest makes of message: message[k] as
\* [lo |-> k, hi |-> k + 1], message[lo:hi] as [lo |-> lo, hi |-> hi].
\* Each group of reads is made only when the checks before it have passed.
Idx(k) == [kind |-> "index", lo |-> k, hi |-> k + 1]
Slc(lo, hi) == [kind |-> "slice", lo |-> lo, hi |-> hi]

\* Lines 104-131 and 146: reads of the switch, given its result a, and
\* of message[i:].
AddressReads(m, atyp, i, a) ==
    (CASE atyp = 1 -> IF a.err = "nil" THEN {Slc(i, i + 4)} ELSE {}
       [] atyp = 2 ->
            IF a.err = "message too short for domain length" THEN {}
            ELSE {Idx(i)} \cup (IF a.err = "nil" THEN {Slc(i + 1, a.i)} ELSE {})
       [] atyp = 3 -> IF a.err = "nil" THEN {Slc(i, i + 16)} ELSE {}
       [] OTHER -> {})
      \cup (IF a.err = "nil" /\ Len(m) > a.i THEN {Slc(a.i, Len(m))} ELSE {})

\* Lines 83-131, 146.
FrameReads(m, u) ==
    IF Len(m) < MinFrameLen THEN {}
    ELSE {Idx(0), Slc(1, 17)} \cup
         IF validateUUID(Slice(m, 1, 17), u) # "match" THEN {}
         ELSE {Idx(17)} \cup
              LET p == ParsePort(m) IN
              IF p.err # "nil" THEN {}
              ELSE {Slc(p.i - 3, p.i - 1), Idx(p.i - 1)} \cup
                   AddressReads(m, p.atyp, p.i, DecodeAddress(m, p.atyp, p.i))

\* []byte{version, 0}
AckNoEcho(v) == <<0, 0>>

Ack(v) == <<v, 0>>

\* message[i:] with an off-by-one start.
InitialPayloadSkewed(m, i) == Slice(m, Min(i + 1, Len(m)), Len(m))

\* message[i:]
InitialPayload(m, i) == Slice(m, i, Len(m))

\* ------------------------------------------------------------- inputs
\* UUID environment values the process is started with: unset, or a
\* hyphenated UUID (hexadecimal digits in both cases).
HyphenatedEnv ==
    <<"1", "2", "3", "4", "5", "6", "7", "8", "-", "9", "0", "A", "B", "-",
      "c", "d", "e", "f", "-", "1", "2", "3", "4", "-",
      "5", "6", "7", "8", "9", "0", "a", "b", "C", "D", "E", "F">>
UuidEnvs == {<<>>, HyphenatedEnv}

\* The 16 bytes HyphenatedEnv spells: 12 34 56 78 90 ab cd ef, twice.
Identifier ==
    <<18, 52, 86, 120, 144, 171, 205, 239, 18, 52, 86, 120, 144, 171, 205, 239>>

\* Wire format of the handshake frame.
MkFrame(v, id, addon, port, at, addr, payload) ==
    <<v>> \o id \o <<Len(addon), 1>> \o addon
      \o <<port \div 256, port % 256, at>> \o addr \o payload

Prefixes(s) == {SubSeq(s, 1, n) : n \in 0..Len(s)}

\* Identifiers that differ from Identifier in one position, or in two.
OneOff(k) == [Identifier EXCEPT ![k] = (@ + 1) % 256]
WrongIds ==
    {OneOff(k) : k \in 1..16}
      \cup {[Identifier EXCEPT ![k] = 0] : k \in 1..16}
      \cup {[OneOff(1) EXCEPT ![k] = 0] : k \in 2..16}
      \cup {[k \in 1..16 |-> 0]}

Ip4 == <<192, 168, 1, 1>>
Ip6 == <<0, 0, 0, 0, 0, 0, 0, 0, 0, 0, 0, 0, 0, 0, 0, 1>>
Abc == <<3, 97, 98, 99>>
Payload5 == <<104, 101, 108, 108, 111>>

\* Ports at the ends and in the middle of the 16-bit range.
TestPorts == {0, 1, 80, 255, 256, 443, 8080, 32768, 65280, 65535}

\* A frame with the largest addon region (N = 255) and the longest domain
\* name (L = 255).
BigFrame ==
    MkFrame(3, Identifier, [k \in 1..255 |-> 9], 256, 2,
            <<255>> \o [k \in 1..255 |-> 97], <<>>)

Frames ==
    \* version byte
    {MkFrame(v, Identifier, <<>>, 80, 1, Ip4, <<>>) : v \in {0, 1, 255}}
    \* addon region
      \cup {MkFrame(1, Identifier, a, 443, 1, Ip4, <<42>>) : a \in {<<9>>, <<9, 9>>}}
    \* address types, known and unknown
      \cup {MkFrame(1, Identifier, <<>>, 8080, 2, d, p) :
              d \in {Abc, <<0>>}, p \in {<<>>, <<42>>}}
      \cup {MkFrame(1, Identifier, <<>>, 65535, at, Ip6, <<>>) : at \in {0, 3, 4, 255}}
    \* truncated frames
      \cup {MkFrame(1, Identifier, <<>>, 80, 1, Ip4, Payload5)}
      \cup Prefixes(MkFrame(2, Identifier, <<>>, 80, 1, Ip4, <<42>>))
      \cup Prefixes(MkFrame(2, Identifier, <<9>>, 80, 2, Abc, <<42>>))
      \cup Prefixes(MkFrame(2, Identifier, <<>>, 80, 3, Ip6, <<>>))
    \* wrong identifiers
      \cup {MkFrame(1, id, <<>>, 80, 1, Ip4, <<42>>) : id \in WrongIds}
      \cup Prefixes(MkFrame(1, OneOff(16), <<9>>, 80, 1, Ip4, <<>>))
    \* ports, on frames that end after the address type
      \cup {MkFrame(1, Identifier, <<>>, p, 4, <<>>, <<>>) : p \in TestPorts}
    \* the longest addon region and domain name, whole and truncated
      \cup Prefixes(BigFrame)

\* Non-binary messages a client may send before the handshake.
NonBinaryMsgs ==
    {[type |-> TextMessage, data |-> d] :
       d \in {<<104, 105>>, MkFrame(1, Identifier, <<>>, 80, 1, Ip4, <<42>>)}}

\* The k-th message a client sends during relay, and the k-th byte the
\* target sends: all distinct, the messages alternately binary and text.
RelayMsg(k) ==
    [type |-> IF k % 2 = 1 THEN BinaryMessage ELSE TextMessage,
     data |-> IF k % 2 = 1 THEN <<k>> ELSE <<k, k>>]
TargetByte(k) == 100 + k

\* -------------------------------------------------------------- state
VARIABLES
    uuid,        \* the package variable uuid, after init()
    pc,          \* position of the connection handler goroutine
    message,     \* the frame handed to handleProxyRequest
    version,     \* message[0]
    authResult,  \* outcome of validateUUID: unset, match, nomatch, panic
    targetPort, atyp, host,
    cursor,      \* the local i of handleProxyRequest
    err,         \* error returned by handleProxyRequest / ending the handler
    skipped,     \* number of non-binary messages the handler loop skipped
    parsed,      \* number of calls of handleProxyRequest
    dials,       \* number of calls of net.Dial
    dialResult,  \* none, ok, failed
    wsState,     \* open, closed (conn.Close() has run)
    tcpState,    \* none, open, closed (tcpConn.Close() has run)
    wsOut,       \* messages written to the WebSocket, in order
    tcpOut,      \* chunks written to the TCP connection, in order
    errChan,     \* contents of the buffered channel
    pcW, pcT,    \* positions of proxyWebSocketToTCP and proxyTCPToWebSocket
    wMsg, tBuf,  \* message / buffer[:n] held between read and write
    wErr, tErr,  \* error a goroutine is about to send
    wsReadLog,   \* messages proxyWebSocketToTCP has read
    tcpReadLog,  \* chunks proxyTCPToWebSocket has read
    tcpIn,       \* bytes sent by the target, not yet read
    tcpSent,     \* all bytes sent by the target
    firstFailed, \* history: the goroutine whose read or write failed first
    firstReport  \* history: the first error sent on errChan

vars ==
    <<uuid, pc, message, version, authResult, targetPort, atyp, host, cursor,
      err, skipped, parsed, dials, dialResult, wsState, tcpState, wsOut,
      tcpOut, errChan, pcW, pcT, wMsg, tBuf, wErr, tErr, wsReadLog,
      tcpReadLog, tcpIn, tcpSent, firstFailed, firstReport>>

header == <<message, version, authResult, targetPort, atyp, host, cursor>>
handler == <<pc, err, skipped, parsed, dials, dialResult>>
wsTask == <<pcW, wMsg, wErr, wsReadLog>>
tcpTask == <<pcT, tBuf, tErr, tcpReadLog>>
target == <<tcpIn, tcpSent>>
history == <<firstFailed, firstReport>>

\* The connection has been upgraded; the handler is at the top of its loop.
Init ==
    /\ uuid \in {InitUuid(e) : e \in UuidEnvs}
    /\ pc = "read"
    /\ message = <<>> /\ version = 0 /\ authResult = "unset"
    /\ targetPort = 0 /\ atyp = 0 /\ host = NoHost /\ cursor = 0
    /\ err = "nil" /\ skipped = 0 /\ parsed = 0
    /\ dials = 0 /\ dialResult = "none"
    /\ wsState = "open" /\ tcpState = "none"
    /\ wsOut = <<>> /\ tcpOut = <<>> /\ errChan = <<>>
    /\ pcW = "idle" /\ pcT = "idle"
    /\ wMsg = <<>> /\ tBuf = <<>> /\ wErr = "nil" /\ tErr = "nil"
    /\ wsReadLog = <<>> /\ tcpReadLog = <<>>
    /\ tcpIn = <<>> /\ tcpSent = <<>>
    /\ firstFailed = "none" /\ firstReport = "nil"

\* ------------------------------------------------- handleWebSocket loop
\* Lines 64-67, 59: ReadMessage fails; the handler returns, conn.Close().
ReadError ==
    /\ pc = "read"
    /\ pc' = "closed" /\ err' = "read error" /\ wsState' = "closed"
    /\ UNCHANGED <<uuid, history, header, skipped, parsed, dials, dialResult, tcpState,
                   wsOut, tcpOut, errChan, wsTask, tcpTask, target>>

\* A non-binary message taken as the end of the session.
ReadNonBinaryEnds ==
    /\ pc = "read" /\ skipped < MaxSkips
    /\ skipped' = skipped + 1
    /\ pc' = "closed" /\ err' = "non-binary message" /\ wsState' = "closed"
    /\ UNCHANGED <<uuid, history, header, parsed, dials, dialResult, tcpState, wsOut,
                   tcpOut, errChan, wsTask, tcpTask, target>>

\* Lines 64, 70-73: a non-binary message is logged and the loop continues.
ReadNonBinary ==
    /\ pc = "read" /\ skipped < MaxSkips
    /\ \E m \in NonBinaryMsgs :
         /\ m.type # BinaryMessage
         /\ skipped' = skipped + 1
    /\ UNCHANGED <<uuid, history, header, pc, err, parsed, dials, dialResult, wsState,
                   tcpState, wsOut, tcpOut, errChan, wsTask, tcpTask, target>>

\* Lines 64, 70, 75: a binary message is handed to handleProxyRequest.
ReadBinary ==
    /\ pc = "read"
    /\ \E m \in Frames : message' = m
    /\ parsed' = parsed + 1
    /\ pc' = "len"
    /\ UNCHANGED <<uuid, history, version, authResult, targetPort, atyp, host, cursor,
                   err, skipped, dials, dialResult, wsState, tcpState, wsOut,
                   tcpOut, errChan, wsTask, tcpTask, target>>

\* ------------------------------------------------- handleProxyRequest
\* Lines 83-87: the minimum length, then the version byte.
CheckLength ==
    /\ pc = "len"
    /\ IF Len(message) < MinFrameLen
       THEN /\ err' = "message too short" /\ pc' = "failed"
            /\ UNCHANGED version
       ELSE /\ version' = At(message, 0) /\ pc' = "auth"
            /\ UNCHANGED err
    /\ UNCHANGED <<uuid, history, message, authResult, targetPort, atyp, host, cursor,
                   skipped, parsed, dials, dialResult, wsState, tcpState,
                   wsOut, tcpOut, errChan, wsTask, tcpTask, target>>

\* The result of validateUUID computed but not acted on.
AuthenticateIgnored ==
    /\ pc = "auth"
    /\ authResult' = validateUUID(Slice(message, 1, 17), uuid)
    /\ pc' = "port"
    /\ UNCHANGED <<uuid, history, message, version, targetPort, atyp, host, cursor,
                   err, skipped, parsed, dials, dialResult, wsState, tcpState,
                   wsOut, tcpOut, errChan, wsTask, tcpTask, target>>

\* Lines 88-92: id := message[1:17]; validateUUID(id).
Authenticate ==
    /\ pc = "auth"
    /\ LET r == validateUUID(Slice(message, 1, 17), uuid) IN
         /\ authResult' = r
         /\ pc' = CASE r = "match" -> "port"
                    [] r = "nomatch" -> "failed"
                    [] OTHER -> "panic"
         /\ err' = IF r = "nomatch" THEN "invalid UUID" ELSE err
    /\ UNCHANGED <<uuid, history, message, version, targetPort, atyp, host, cursor,
                   skipped, parsed, dials, dialResult, wsState, tcpState,
                   wsOut, tcpOut, errChan, wsTask, tcpTask, target>>

\* A panic in validateUUID unwinds handleWebSocket: the deferred
\* conn.Close() of line 59 runs and net/http recovers the panic.
PanicUnwind ==
    /\ pc = "panic"
    /\ pc' = "closed" /\ err' = "panic" /\ wsState' = "closed"
    /\ UNCHANGED <<uuid, history, header, skipped, parsed, dials, dialResult, tcpState,
                   wsOut, tcpOut, errChan, wsTask, tcpTask, target>>

\* Lines 94-102.
ReadPort ==
    /\ pc = "port"
    /\ LET r == ParsePort(message) IN
         /\ cursor' = r.i
         /\ IF r.err # "nil"
            THEN /\ err' = r.err /\ pc' = "failed"
                 /\ UNCHANGED <<targetPort, atyp>>
            ELSE /\ targetPort' = r.targetPort /\ atyp' = r.atyp
                 /\ pc' = "addr" /\ UNCHANGED err
    /\ UNCHANGED <<uuid, history, message, version, authResult, host, skipped, parsed,
                   dials, dialResult, wsState, tcpState, wsOut, tcpOut,
                   errChan, wsTask, tcpTask, target>>

\* Lines 104-133.
ReadAddress ==
    /\ pc = "addr"
    /\ LET r == DecodeAddress(message, atyp, cursor) IN
         /\ cursor' = r.i /\ host' = r.host
         /\ IF r.err # "nil"
            THEN err' = r.err /\ pc' = "failed"
            ELSE pc' = "ack" /\ UNCHANGED err
    /\ UNCHANGED <<uuid, history, message, version, authResult, targetPort, atyp,
                   skipped, parsed, dials, dialResult, wsState, tcpState,
                   wsOut, tcpOut, errChan, wsTask, tcpTask, target>>

\* The acknowledgment left out.
SendAckOmitted ==
    /\ pc = "ack"
    /\ pc' = "dial"
    /\ UNCHANGED <<uuid, history, header, err, skipped, parsed, dials, dialResult,
                   wsState, tcpState, wsOut, tcpOut, errChan, wsTask, tcpTask,
                   target>>

\* Lines 135-137: wsConn.WriteMessage(BinaryMessage, []byte{version, 0}).
SendAck ==
    /\ pc = "ack"
    /\ \/ /\ wsOut' = Append(wsOut, [by |-> "ack", data |-> Ack(version)])
          /\ pc' = "dial" /\ UNCHANGED err
       \/ /\ err' = "failed to send response" /\ pc' = "failed"
          /\ UNCHANGED wsOut
    /\ UNCHANGED <<uuid, history, header, skipped, parsed, dials, dialResult, wsState,
                   tcpState, tcpOut, errChan, wsTask, tcpTask, target>>

\* Lines 139-143: net.Dial; on success tcpConn.Close() is deferred.
Dial ==
    /\ pc = "dial"
    /\ dials' = dials + 1
    /\ \/ /\ dialResult' = "ok" /\ tcpState' = "open" /\ pc' = "payload"
          /\ UNCHANGED err
       \/ /\ dialResult' = "failed" /\ err' = "failed to connect to target"
          /\ pc' = "failed" /\ UNCHANGED tcpState
    /\ UNCHANGED <<uuid, history, header, skipped, parsed, wsState, wsOut, tcpOut,
                   errChan, wsTask, tcpTask, target>>

\* Lines 145-149: the bytes after the address go to the target first.
WriteInitial ==
    /\ pc = "payload"
    /\ IF Len(message) > cursor
       THEN \/ /\ tcpOut' = Append(tcpOut, [by |-> "initial",
                                            data |-> InitialPayload(message, cursor)])
               /\ pc' = "spawn" /\ UNCHANGED err
            \/ /\ err' = "failed to write initial data to target"
               /\ pc' = "return" /\ UNCHANGED tcpOut
       ELSE pc' = "spawn" /\ UNCHANGED <<err, tcpOut>>
    /\ UNCHANGED <<uuid, history, header, skipped, parsed, dials, dialResult, wsState,
                   tcpState, wsOut, errChan, wsTask, tcpTask, target>>

\* Lines 151-154: the channel and the two goroutines.
StartRelay ==
    /\ pc = "spawn"
    /\ errChan' = <<>> /\ pcW' = "read" /\ pcT' = "read" /\ pc' = "recv"
    /\ UNCHANGED <<uuid, history, header, err, skipped, parsed, dials, dialResult,
                   wsState, tcpState, wsOut, tcpOut, wMsg, wErr, wsReadLog,
                   tBuf, tErr, tcpReadLog, target>>

\* The receive taking the newest error in the channel.
ReceiveLast ==
    /\ pc = "recv" /\ errChan # <<>>
    /\ err' = errChan[Len(errChan)]
    /\ errChan' = SubSeq(errChan, 1, Len(errChan) - 1)
    /\ pc' = "return"
    /\ UNCHANGED <<uuid, history, header, skipped, parsed, dials, dialResult,
                   wsState, tcpState, wsOut, tcpOut, wsTask, tcpTask, target>>

\* Line 156: err = <-errChan.
Receive ==
    /\ pc = "recv" /\ errChan # <<>>
    /\ err' = Head(errChan) /\ errChan' = Tail(errChan) /\ pc' = "return"
    /\ UNCHANGED <<uuid, history, header, skipped, parsed, dials, dialResult, wsState,
                   tcpState, wsOut, tcpOut, wsTask, tcpTask, target>>

\* The relay's end reported to the handler loop as success.
ReturnNil ==
    /\ pc = "return"
    /\ tcpState' = "closed" /\ err' = "nil" /\ pc' = "failed"
    /\ UNCHANGED <<uuid, history, header, skipped, parsed, dials, dialResult,
                   wsState, wsOut, tcpOut, errChan, wsTask, tcpTask, target>>

\* The return without the deferred close.
ReturnNoClose ==
    /\ pc = "return"
    /\ pc' = "failed"
    /\ UNCHANGED <<uuid, history, header, err, skipped, parsed, dials, dialResult,
                   wsState, tcpState, wsOut, tcpOut, errChan, wsTask, tcpTask,
                   target>>

\* Lines 147/157 with the deferred tcpConn.Close() of line 143.
Return ==
    /\ pc = "return"
    /\ tcpState' = "closed" /\ pc' = "failed"
    /\ UNCHANGED <<uuid, history, header, err, skipped, parsed, dials, dialResult,
                   wsState, wsOut, tcpOut, errChan, wsTask, tcpTask, target>>

\* The loop going on after a failed request.
ProxyErrorContinue ==
    /\ pc = "failed"
    /\ pc' = "read"
    /\ UNCHANGED <<uuid, history, header, err, skipped, parsed, dials, dialResult,
                   wsState, tcpState, wsOut, tcpOut, errChan, wsTask, tcpTask,
                   target>>

\* Lines 75-78, 59: handleProxyRequest returned; a nil result would go
\* round the loop, an error ends the handler and conn.Close() runs.
ProxyError ==
    /\ pc = "failed"
    /\ IF err = "nil"
       THEN pc' = "read" /\ UNCHANGED wsState
       ELSE pc' = "closed" /\ wsState' = "closed"
    /\ UNCHANGED <<uuid, history, header, err, skipped, parsed, dials, dialResult,
                   tcpState, wsOut, tcpOut, errChan, wsTask, tcpTask, target>>

\* ------------------------------------------------ proxyWebSocketToTCP
\* Line 162: ReadMessage returns the next message; its type is discarded.
WsToTcpRead ==
    /\ pcW = "read" /\ wsState = "open" /\ Len(wsReadLog) < MaxWsMsgs
    /\ LET m == RelayMsg(Len(wsReadLog) + 1) IN
         /\ wMsg' = m.data
         /\ wsReadLog' = Append(wsReadLog, m)
    /\ pcW' = "write"
    /\ UNCHANGED <<uuid, history, header, handler, wsState, tcpState, wsOut, tcpOut,
                   errChan, wErr, tcpTask, target>>

\* Lines 162-163: ReadMessage fails (peer gone, or conn.Close() has run).
WsToTcpReadFail ==
    /\ pcW = "read"
    /\ wErr' = "WebSocket read error" /\ pcW' = "report"
    /\ firstFailed' = (IF firstFailed = "none" THEN "W" ELSE firstFailed)
    /\ UNCHANGED firstReport
    /\ UNCHANGED <<uuid, header, handler, wsState, tcpState, wsOut, tcpOut,
                   errChan, wMsg, wsReadLog, tcpTask, target>>

\* The message read is dropped instead of written.
WsToTcpWriteDropped ==
    /\ pcW = "write" /\ tcpState = "open"
    /\ pcW' = "read"
    /\ UNCHANGED <<uuid, history, header, handler, wsState, tcpState, wsOut, tcpOut,
                   errChan, wMsg, wErr, wsReadLog, tcpTask, target>>

\* Line 168: tcpConn.Write(message).
WsToTcpWrite ==
    /\ pcW = "write" /\ tcpState = "open"
    /\ tcpOut' = Append(tcpOut, [by |-> "relay", data |-> wMsg])
    /\ pcW' = "read"
    /\ UNCHANGED <<uuid, history, header, handler, wsState, tcpState, wsOut, errChan,
                   wMsg, wErr, wsReadLog, tcpTask, target>>

\* Lines 168-169: the write fails (peer gone, or tcpConn.Close() has run).
WsToTcpWriteFail ==
    /\ pcW = "write"
    /\ wErr' = "TCP write error" /\ pcW' = "report"
    /\ firstFailed' = (IF firstFailed = "none" THEN "W" ELSE firstFailed)
    /\ UNCHANGED firstReport
    /\ UNCHANGED <<uuid, header, handler, wsState, tcpState, wsOut, tcpOut,
                   errChan, wMsg, wsReadLog, tcpTask, target>>

\* Lines 164-165, 169-170: errChan <- err; return.
WsToTcpReport ==
    /\ pcW = "report" /\ Len(errChan) < ErrChanCap
    /\ errChan' = Append(errChan, wErr) /\ pcW' = "done"
    /\ firstReport' = (IF firstReport = "nil" THEN wErr ELSE firstReport)
    /\ UNCHANGED firstFailed
    /\ UNCHANGED <<uuid, header, handler, wsState, tcpState, wsOut, tcpOut,
                   wMsg, wErr, wsReadLog, tcpTask, target>>

\* ------------------------------------------------ proxyTCPToWebSocket
\* Line 178: Read fills at most len(buffer) bytes; buffer[:n] is kept.
TcpToWsRead ==
    /\ pcT = "read" /\ tcpState = "open" /\ tcpIn # <<>>
    /\ \E n \in 1..Min(BufSize, Len(tcpIn)) :
         /\ tBuf' = SubSeq(tcpIn, 1, n)
         /\ tcpIn' = SubSeq(tcpIn, n + 1, Len(tcpIn))
         /\ tcpReadLog' = Append(tcpReadLog, SubSeq(tcpIn, 1, n))
    /\ pcT' = "write"
    /\ UNCHANGED <<uuid, history, header, handler, wsState, tcpState, wsOut, tcpOut,
                   errChan, tErr, wsTask, tcpSent>>

\* Lines 178-180: the read fails (peer gone, or tcpConn.Close() has run).
TcpToWsReadFail ==
    /\ pcT = "read"
    /\ tErr' = "TCP read error" /\ pcT' = "report"
    /\ firstFailed' = (IF firstFailed = "none" THEN "T" ELSE firstFailed)
    /\ UNCHANGED firstReport
    /\ UNCHANGED <<uuid, header, handler, wsState, tcpState, wsOut, tcpOut,
                   errChan, tBuf, tcpReadLog, wsTask, target>>

\* A write that succeeds on a connection this process has closed.
TcpToWsWriteUnguarded ==
    /\ pcT = "write"
    /\ wsOut' = Append(wsOut, [by |-> "relay", data |-> tBuf])
    /\ pcT' = "read"
    /\ UNCHANGED <<uuid, history, header, handler, wsState, tcpState, tcpOut, errChan,
                   tBuf, tErr, tcpReadLog, wsTask, target>>

\* Line 184: wsConn.WriteMessage(BinaryMessage, buffer[:n]).
TcpToWsWrite ==
    /\ pcT = "write" /\ wsState = "open"
    /\ wsOut' = Append(wsOut, [by |-> "relay", data |-> tBuf])
    /\ pcT' = "read"
    /\ UNCHANGED <<uuid, history, header, handler, wsState, tcpState, tcpOut, errChan,
                   tBuf, tErr, tcpReadLog, wsTask, target>>

\* Lines 184-185: the write fails (peer gone, or conn.Close() has run).
TcpToWsWriteFail ==
    /\ pcT = "write"
    /\ tErr' = "WebSocket write error" /\ pcT' = "report"
    /\ firstFailed' = (IF firstFailed = "none" THEN "T" ELSE firstFailed)
    /\ UNCHANGED firstReport
    /\ UNCHANGED <<uuid, header, handler, wsState, tcpState, wsOut, tcpOut,
                   errChan, tBuf, tcpReadLog, wsTask, target>>

\* Lines 180-181, 185-186: errChan <- err; return.
TcpToWsReport ==
    /\ pcT = "report" /\ Len(errChan) < ErrChanCap
    /\ errChan' = Append(errChan, tErr) /\ pcT' = "done"
    /\ firstReport' = (IF firstReport = "nil" THEN tErr ELSE firstReport)
    /\ UNCHANGED firstFailed
    /\ UNCHANGED <<uuid, header, handler, wsState, tcpState, wsOut, tcpOut,
                   tBuf, tErr, tcpReadLog, wsTask, target>>

\* ------------------------------------------------------- the target
\* The dialled peer sends one more byte.
TargetSend ==
    /\ tcpState = "open" /\ Len(tcpSent) < MaxTcpBytes
    /\ LET b == TargetByte(Len(tcpSent) + 1) IN
         /\ tcpIn' = Append(tcpIn, b)
         /\ tcpSent' = Append(tcpSent, b)
    /\ UNCHANGED <<uuid, history, header, handler, wsState, tcpState, wsOut, tcpOut,
                   errChan, wsTask, tcpTask>>

\* ------------------------------------------------------ specification
Next ==
    \/ ReadError \/ ReadNonBinary \/ ReadBinary
    \/ CheckLength \/ Authenticate \/ PanicUnwind \/ ReadPort \/ ReadAddress
    \/ SendAck \/ Dial \/ WriteInitial \/ StartRelay \/ Receive \/ Return
    \/ ProxyError
    \/ WsToTcpRead \/ WsToTcpReadFail \/ WsToTcpWrite \/ WsToTcpWriteFail
    \/ WsToTcpReport
    \/ TcpToWsRead \/ TcpToWsReadFail \/ TcpToWsWrite \/ TcpToWsWriteFail
    \/ TcpToWsReport
    \/ TargetSend

Spec == Init /\ [][Next]_vars

\* Goroutines that can run do run; a read or write on a transport this
\* process has closed returns its error.  Nothing is assumed of the peers.
Fairness ==
    /\ WF_vars(Receive) /\ WF_vars(Return) /\ WF_vars(ProxyError)
    /\ WF_vars(WsToTcpReport) /\ WF_vars(TcpToWsReport)
    /\ WF_vars(WsToTcpReadFail /\ wsState = "closed")
    /\ WF_vars(WsToTcpWriteFail /\ tcpState = "closed")
    /\ WF_vars(TcpToWsReadFail /\ tcpState = "closed")
    /\ WF_vars(TcpToWsWriteFail /\ wsState = "closed")

FairSpec == Spec /\ Fairness

\* ------------------------------------------------------- properties
Acks == SelectSeq(wsOut, LAMBDA w : w.by = "ack")
WsRelayed == SelectSeq(wsOut, LAMBDA w : w.by = "relay")
TcpInitial == SelectSeq(tcpOut, LAMBDA w : w.by = "initial")
TcpRelayed == SelectSeq(tcpOut, LAMBDA w : w.by = "relay")

RECURSIVE Concat(_)
Concat(ws) == IF ws = <<>> THEN <<>> ELSE Head(ws).data \o Concat(Tail(ws))

IsPrefix(a, b) == Len(a) <= Len(b) /\ SubSeq(b, 1, Len(a)) = a

RelayStarted == pcW # "idle"

FrameTooShort ==
    {"message too short", "message too short for IPv4",
     "message too short for domain length",
     "message too short for domain name", "message too short for IPv6"}
HeaderRejected == FrameTooShort \cup {"unknown address type", "invalid UUID"}

\* C1: when the dial fails no acknowledgment has been written to the
\* WebSocket and no payload byte has been forwarded.
C1_NoAckWhenDialFails ==
    dialResult = "failed" => Acks = <<>> /\ tcpOut = <<>>

\* A step that ends in a rejected frame, or follows one.
RejectedStep ==
    (err' \in HeaderRejected \/ authResult' = "nomatch") =>
        /\ dials' = 0 /\ dialResult' = "none" /\ tcpState' = "none"
        /\ wsOut' = <<>> /\ tcpOut' = <<>>
        /\ pcW' = "idle" /\ pcT' = "idle"
        /\ pc' \in {"failed", "closed"}
        /\ pc' = "closed" => wsState' = "closed"
        /\ pc = "failed" => pc' = "closed"

\* C2: a frame rejected as too short, of unknown address type or with a
\* wrong identifier has no effect on either transport (no dial, no
\* acknowledgment, nothing forwarded, no relay), and the next step of the
\* handler closes the connection.
C2_RejectedFrameNoSideEffect == [][RejectedStep]_vars

C2_Witness ==
    /\ authResult = "nomatch" /\ err = "invalid UUID"
    /\ pc = "closed" /\ wsState = "closed"

\* C3: with a 16-byte identifier configured, validateUUID accepts the 16
\* bytes of a frame exactly when they equal the identifier in every
\* position, and rejects every candidate that differs in some position.
C3_AcceptsIffEqual ==
    (uuid = InitUuid(HyphenatedEnv) /\ authResult # "unset") =>
        /\ authResult \in {"match", "nomatch"}
        /\ authResult = "match" <=>
             \A k \in 1..16 : message[1 + k] = Identifier[k]

C3_Witness ==
    /\ uuid = InitUuid(HyphenatedEnv)
    /\ authResult = "nomatch"
    /\ \A k \in 1..15 : message[1 + k] = Identifier[k]
    /\ message[17] # Identifier[16]

\* C4: the configured identifier is 16 bytes (32 hexadecimal digits) in
\* every configuration, the default included, so validateUUID never faults.
C4_IdentifierAlwaysSixteenBytes ==
    /\ authResult # "unset" => Len(uuid) = 2 * 16
    /\ authResult # "panic"

\* C5: once a relay goroutine has hit an error, eventually both transports
\* are closed and both goroutines have returned.
C5_FirstFailureEndsSession ==
    (pcW \in {"report", "done"} \/ pcT \in {"report", "done"})
      ~> (/\ wsState = "closed" /\ tcpState = "closed"
          /\ pcW = "done" /\ pcT = "done")

\* The target closed mid-relay: the TCP read failed first, then the
\* WebSocket-side goroutine ended on the closed connection.
C5_Witness ==
    /\ err = "TCP read error" /\ pc = "closed"
    /\ wsState = "closed" /\ tcpState = "closed"
    /\ pcW = "done" /\ pcT = "done"
    /\ errChan = <<"WebSocket read error">>

\* C6: the acknowledgment is the first thing written: it is on the
\* WebSocket before the initial payload reaches the target and before the
\* relay goroutines start, and a session writes exactly one.
C6_AckPrecedesData ==
    /\ Len(Acks) <= 1
    /\ wsOut # <<>> => wsOut[1].by = "ack"
    /\ tcpOut # <<>> => Len(Acks) = 1
    /\ (pc \in {"spawn", "recv"} \/ RelayStarted) => Len(Acks) = 1

C6_Witness ==
    /\ RelayStarted /\ TcpInitial # <<>>
    /\ Len(wsOut) >= 2 /\ wsOut[2].by = "relay"

\* C7: the acknowledgment is the two bytes [frame[0], 0].
C7_AckEchoesVersion ==
    /\ \A k \in DOMAIN wsOut :
         wsOut[k].by = "ack" => wsOut[k].data = <<message[1], 0>>
    /\ pc \in {"dial", "payload", "spawn", "recv"} =>
         wsOut # <<>> /\ wsOut[1] = [by |-> "ack", data |-> <<message[1], 0>>]

C7_Witness ==
    /\ wsOut # <<>> /\ wsOut[1] = [by |-> "ack", data |-> <<255, 0>>]

\* Offset of the first byte after the address, from the wire format: 22+N
\* plus 4, 1+L or 16.
AddressEnd(m) ==
    LET n == m[18]
        tag == m[22 + n]
    IN  22 + n + (CASE tag = 1 -> 4 [] tag = 2 -> 1 + m[23 + n] [] OTHER -> 16)

\* C8: the bytes after the address are written to the target exactly once,
\* verbatim, ahead of every relayed chunk; with none, nothing precedes the
\* relay.  What reaches the WebSocket from the target is what it sent.
C8_InitialPayloadFirst ==
    /\ \A k \in DOMAIN tcpOut : tcpOut[k].by = "initial" => k = 1
    /\ (pc \in {"spawn", "recv"} \/ RelayStarted) =>
         LET rest == SubSeq(message, AddressEnd(message) + 1, Len(message)) IN
           IF rest = <<>>
           THEN TcpInitial = <<>>
           ELSE TcpInitial = <<[by |-> "initial", data |-> rest]>>
    /\ IsPrefix(Concat(WsRelayed), tcpSent)

C8_Witness ==
    /\ tcpOut # <<>> /\ tcpOut[1] = [by |-> "initial", data |-> Payload5]
    /\ Len(tcpOut) >= 2
    /\ Concat(WsRelayed) = <<TargetByte(1), TargetByte(2)>>

\* C9: in each direction what has been written is, in order, what has been
\* read, short of at most the chunk in hand.
C9_OrderedNoLoss ==
    /\ Len(TcpRelayed) <= Len(wsReadLog)
    /\ \A k \in DOMAIN TcpRelayed : TcpRelayed[k].data = wsReadLog[k].data
    /\ Len(wsReadLog) <= Len(TcpRelayed) + 1
    /\ pcW = "read" => Len(TcpRelayed) = Len(wsReadLog)
    /\ Len(WsRelayed) <= Len(tcpReadLog)
    /\ \A k \in DOMAIN WsRelayed : WsRelayed[k].data = tcpReadLog[k]
    /\ Len(tcpReadLog) <= Len(WsRelayed) + 1
    /\ pcT = "read" => Len(WsRelayed) = Len(tcpReadLog)

C9_Witness ==
    /\ Len(TcpRelayed) = 2 /\ Len(WsRelayed) = 2
    /\ pcW = "read" /\ pcT = "read"

\* A step taken after handleProxyRequest has returned.
AfterSessionStep ==
    pc \in {"failed", "closed"} =>
        /\ pc' \in {"failed", "closed"}
        /\ pc # pc' => pc' = "closed" /\ wsState' = "closed"
        /\ parsed' = parsed /\ dials' = dials /\ message' = message
        /\ tcpState' # "open"

\* C10: a connection makes at most one dial and handles at most one
\* handshake frame; once handleProxyRequest has returned, nothing more is
\* parsed or dialled and the handler only closes the connection.
C10_OneSessionPerConnection ==
    /\ [](dials <= 1 /\ parsed <= 1)
    /\ [][AfterSessionStep]_vars

C10_Witness ==
    /\ pc = "closed" /\ dials = 1 /\ parsed = 1 /\ skipped = 1
    /\ tcpState = "closed"

\* A step in which the handler loop skips a non-binary message.
SkipStep ==
    skipped' # skipped =>
        /\ pc = "read" /\ pc' = "read"
        /\ wsState' = "open" /\ err' = "nil"
        /\ UNCHANGED <<header, parsed, dials, dialResult, tcpState, wsOut,
                       tcpOut, errChan, wsTask, tcpTask, target>>

\* C11: a non-binary message received while awaiting the handshake is
\* skipped: the handler stays at the top of its loop with the connection
\* open, nothing is parsed, acknowledged, dialled or forwarded for it, and
\* a binary handshake frame read afterwards is processed.
C11_NonBinarySkipped ==
    /\ [][SkipStep]_vars
    /\ [](skipped > 0 /\ pc = "read" => ENABLED ReadBinary)

C11_Witness ==
    /\ skipped > 0 /\ parsed = 1 /\ authResult = "match"
    /\ RelayStarted /\ Len(Acks) = 1

\* handleProxyRequest has returned for the frame in message.
RequestReturned == parsed = 1 /\ pc \in {"failed", "closed"}

\* C12 as stated: every frame shorter than 18 bytes, and every frame of
\* length >= 18 shorter than (19 + N) + 3, fails with FrameTooShort.
\* (Stated for the configuration with a 16-byte identifier.)
C12_ShortFrameAlwaysTooShort ==
    (uuid = InitUuid(HyphenatedEnv) /\ RequestReturned) =>
        /\ Len(message) < 18 => err = "message too short"
        /\ (Len(message) >= 18 /\ Len(message) < (19 + message[18]) + 3) =>
             err = "message too short"

\* C12, amended: every frame shorter than 18 bytes fails with
\* FrameTooShort before anything else is looked at, and every frame of
\* length >= 18 whose identifier matches and whose length is less than
\* (19 + N) + 3 fails with FrameTooShort; a frame whose identifier does not
\* match fails with AuthenticationFailed whatever its length.
C12_LengthChecks ==
    RequestReturned =>
        /\ Len(message) < 18 =>
             err = "message too short" /\ authResult = "unset"
        /\ (Len(message) >= 18 /\ authResult = "match"
              /\ Len(message) < (19 + message[18]) + 3) =>
             err = "message too short"
        /\ (Len(message) >= 18 /\ authResult = "nomatch") => err = "invalid UUID"

C12_Witness ==
    /\ RequestReturned /\ authResult = "match"
    /\ message[18] = 255 /\ Len(message) = 19 + 255 + 2
    /\ err = "message too short"

\* The handler is past the address switch of lines 104-131.
AddressDecoded == pc \notin {"read", "len", "auth", "port", "addr", "panic"}

\* N and the address-type tag of a frame long enough to hold them.
AddonLen(m) == m[18]
Tag(m) == m[22 + AddonLen(m)]
HasTag(m) == Len(m) >= 18 /\ Len(m) >= 22 + AddonLen(m)

\* C13: an authenticated frame long enough for port and tag whose tag is
\* outside {1, 2, 3} fails with UnknownAddressType, whatever follows the
\* tag, and nothing is acknowledged or dialled for it.
C13_UnknownAddressType ==
    (AddressDecoded /\ authResult = "match" /\ HasTag(message)
       /\ Tag(message) \notin {1, 2, 3}) =>
        /\ err = "unknown address type"
        /\ pc \in {"failed", "closed"}
        /\ host = NoHost /\ wsOut = <<>> /\ dials = 0

C13_Witness ==
    /\ err = "unknown address type" /\ pc = "closed"
    /\ Tag(message) = 255 /\ Len(message) = 22 + 16

\* Offset of the first address byte, and the bytes the address takes
\* (-1 when the domain form lacks even its length byte).
AddressStart(m) == 22 + AddonLen(m)
Consumed(m) ==
    CASE Tag(m) = 1 -> 4
      [] Tag(m) = 2 -> IF Len(m) < AddressStart(m) + 1 THEN -1
                       ELSE 1 + m[AddressStart(m) + 1]
      [] OTHER -> 16
AddressTooShort ==
    {"message too short for IPv4", "message too short for domain length",
     "message too short for domain name", "message too short for IPv6"}

\* C14: from the cursor after the tag (22 + N), atyp 1 takes 4 bytes, atyp 2
\* takes 1 + L bytes (the host being the L bytes after the length byte) and
\* atyp 3 takes 16; the decode fails exactly when fewer bytes remain, and
\* on success the payload offset is 22 + N plus the bytes taken.
C14_CursorAdvance ==
    (AddressDecoded /\ authResult = "match" /\ HasTag(message)
       /\ Tag(message) \in {1, 2, 3}) =>
        LET m == message
            s == AddressStart(m)
            c == Consumed(m)
            short == c < 0 \/ Len(m) < s + c
        IN  /\ short <=> host = NoHost
            /\ short => err \in AddressTooShort /\ pc \in {"failed", "closed"}
            /\ ~short =>
                 /\ cursor = s + c
                 /\ host.kind = (CASE Tag(m) = 1 -> "ipv4" [] Tag(m) = 2 -> "domain"
                                   [] OTHER -> "ipv6")
                 /\ host.bytes = IF Tag(m) = 2 THEN SubSeq(m, s + 2, s + c)
                                 ELSE SubSeq(m, s + 1, s + c)
                 /\ Len(host.bytes) = IF Tag(m) = 2 THEN c - 1 ELSE c

C14_Witness ==
    /\ message = BigFrame /\ AddressDecoded
    /\ cursor = 22 + 255 + 1 + 255 /\ host.kind = "domain"
    /\ Len(host.bytes) = 255

\* A port as two big-endian bytes.
EncodePort(p) == <<p \div 256, p % 256>>

\* The handler is past lines 94-102 with the port read.
PortDecoded ==
    /\ pc \notin {"read", "len", "auth", "port", "panic"}
    /\ authResult = "match" /\ HasTag(message)

\* C15: the target port is the big-endian 16-bit value of the two bytes at
\* offset 19 + N: it lies in 0..65535, its big-endian encoding is those two
\* bytes, and a frame that carries the encoding of P decodes to P.
C15_PortBigEndian ==
    PortDecoded =>
        LET at == 19 + AddonLen(message)
            bytes == SubSeq(message, at + 1, at + 2)
        IN  /\ targetPort \in 0..65535
            /\ targetPort = 256 * bytes[1] + bytes[2]
            /\ EncodePort(targetPort) = bytes
            /\ \A p \in TestPorts : bytes = EncodePort(p) => targetPort = p

C15_Witness ==
    /\ PortDecoded /\ targetPort = 65280
    /\ SubSeq(message, 20, 21) = <<255, 0>>

\* The orchestrator's states, read off the handler's position: AwaitingFrame
\* (0) until the frame has passed the length check, HeaderParsed (1) while
\* the identifier is checked, Authenticated (2) up to the dial, Dialed (3)
\* up to the start of the goroutines, Relaying (4) while waiting on
\* errChan, Closed (5) from the moment handleProxyRequest is returning.
Phase(p) ==
    CASE p \in {"read", "len"} -> 0
      [] p = "auth" -> 1
      [] p \in {"port", "addr", "ack", "dial"} -> 2
      [] p \in {"payload", "spawn"} -> 3
      [] p = "recv" -> 4
      [] OTHER -> 5

\* C16 as stated, its last part: once handleProxyRequest has returned,
\* nothing more is written to either transport.
QuietAfterReturnStep ==
    pc \in {"failed", "closed"} =>
        wsOut' = wsOut /\ tcpOut' = tcpOut /\ dials' = dials

C16_NoWriteAfterReturn == [][QuietAfterReturnStep]_vars

OrderedStep ==
    /\ Phase(pc') \in {Phase(pc), Phase(pc) + 1, 5}
    /\ err' # err => Phase(pc') = 5
    /\ Phase(pc) = 5 =>
         /\ Phase(pc') = 5
         /\ dials' = dials /\ Acks' = Acks
    /\ pc \in {"failed", "closed"} => tcpOut' = tcpOut
    /\ pc = "closed" => wsOut' = wsOut /\ pc' = "closed"

\* C16, amended: the states are entered only in the order AwaitingFrame,
\* HeaderParsed, Authenticated, Dialed, Relaying, Closed; every failure
\* leads to Closed; Closed is never left and no ack or dial follows it;
\* nothing is written to the target once handleProxyRequest has returned,
\* and nothing to the WebSocket once the handler has closed it.
C16_StateMachine == [][OrderedStep]_vars

C16_Witness ==
    /\ pc = "closed" /\ pcW = "done" /\ pcT = "done"
    /\ Len(WsRelayed) >= 1 /\ Len(TcpRelayed) >= 1
    /\ wsState = "closed" /\ tcpState = "closed"

\* C17: no non-binary message is processed as protocol data: none is
\* parsed as a header (the frame in message arrived as a binary message)
\* and none of those read during relay is written to the target (the k-th
\* chunk relayed is the k-th message read, by C9).
C17_NonBinaryNeverProcessed ==
    /\ parsed = 0 => message = <<>> /\ authResult = "unset"
    /\ \A k \in DOMAIN wsReadLog :
         wsReadLog[k].type # BinaryMessage => Len(TcpRelayed) < k

TransportErrors ==
    {"WebSocket read error", "TCP write error",
     "TCP read error", "WebSocket write error"}

\* handleProxyRequest has received from errChan.
EngineReturned == RelayStarted /\ pc \in {"return", "failed", "closed"}

\* C18 as stated: the value returned is the error of the goroutine whose
\* read or write failed first.
C18_ReturnsFirstFailure ==
    EngineReturned =>
        /\ err \in TransportErrors
        /\ err = IF firstFailed = "W" THEN wErr ELSE tErr

\* C18, amended: the value returned is the error that was sent on errChan
\* first, a non-nil transport error of a goroutine that has reported, and
\* handleProxyRequest does not return while neither has reported.
C18_ReturnsFirstReport ==
    /\ EngineReturned =>
         /\ err = firstReport /\ err # "nil" /\ err \in TransportErrors
         /\ \/ pcW = "done" /\ err = wErr
            \/ pcT = "done" /\ err = tErr
    /\ (RelayStarted /\ firstReport = "nil") =>
         pc = "recv" /\ pcW # "done" /\ pcT # "done"

\* The WebSocket side failed first, the TCP side reported first.
C18_Witness ==
    /\ EngineReturned /\ firstFailed = "W"
    /\ firstReport = "TCP read error" /\ err = "TCP read error"
    /\ pcW = "done" /\ errChan = <<"WebSocket read error">>

\* C19: every index and every slice bound handleProxyRequest reads of the
\* frame lies within it: 0 <= k < len for message[k], 0 <= lo <= hi <= len
\* for message[lo:hi].
C19_ReadsWithinFrame ==
    parsed >= 1 =>
        \A r \in FrameReads(message, uuid) :
            /\ 0 <= r.lo /\ r.lo <= r.hi /\ r.hi <= Len(message)
            /\ r.kind = "index" => r.lo < Len(message)

\* A frame with N = 255 cut inside its 255-byte domain name: the length
\* byte is read, the name is not.
C19_Witness ==
    /\ parsed = 1 /\ err = "message too short for domain name"
    /\ AddonLen(message) = 255 /\ message[23 + 255] = 255
    /\ Idx(22 + 255) \in FrameReads(message, uuid)
    /\ Cardinality(FrameReads(message, uuid)) = 6

\* Goroutines inside, or about to make, a read of / a write to the WebSocket.
WsReaders ==
    (IF pc = "read" THEN {"handler"} ELSE {})
      \cup (IF pcW = "read" THEN {"proxyWebSocketToTCP"} ELSE {})
WsWriters ==
    (IF pc = "ack" THEN {"handler"} ELSE {})
      \cup (IF pcT = "write" THEN {"proxyTCPToWebSocket"} ELSE {})

\* C20: at every moment at most one goroutine reads the WebSocket and at
\* most one writes it; while a relay goroutine is live the handler is
\* neither in ReadMessage nor writing the acknowledgment.
C20_SingleReaderSingleWriter ==
    /\ Cardinality(WsReaders) <= 1
    /\ Cardinality(WsWriters) <= 1
    /\ (pcW \in {"read", "write", "report"} \/ pcT \in {"read", "write", "report"})
         => pc \in {"recv", "return", "failed", "closed"}

\* The handler waits on errChan while both goroutines are at work.
C20_Witness ==
    /\ pc = "recv" /\ RelayStarted /\ skipped = 1
    /\ WsReaders = {"proxyWebSocketToTCP"}
    /\ WsWriters = {"proxyTCPToWebSocket"}

====
